---- MODULE Spec2Model ----
(***************************************************************************)
(* Selector resolution and model-step execution of the workflow engine:    *)
(*   steps_executors/utils.py   get_image, resolve_parameter               *)
(*   steps_executors/models.py  run_roboflow_model_step,                   *)
(*                              run_ocr_model_step, load_core_model,       *)
(*                              MODEL_TYPE2REQUEST_CONSTRUCTOR             *)
(* One run: an ordered list of steps is executed over runtime_parameters,  *)
(* each step writing its serialised result into outputs_lookup.            *)
(***************************************************************************)
EXTENDS Integers, Sequences, FiniteSets, TLC

\* ---- bounds -------------------------------------------------------------
MaxBatch == 2   \* longest image batch and longest inference result list
MaxSteps == 2   \* longest ordered step list of one run
MaxDepth == 2   \* deepest batch nesting of a reference parameter

\* ---- Python values ------------------------------------------------------
\* Every value carries its runtime type (what type(x) / issubclass inspect).
\*   scalar: number, boolean, image handle   val = <<atom>>
\*   str   : string, kept as its "."-split chunks ("$steps.a.b" = 3 chunks)
\*   list  : val = sequence of values
\*   dict  : val = function field name -> value
\*   obj   : a response object of the model manager (has .dict())
Scalar(a) == [ty |-> "scalar", val |-> <<a>>]
Str(chunks) == [ty |-> "str", val |-> chunks]
List(l) == [ty |-> "list", val |-> l]
Dict(d) == [ty |-> "dict", val |-> d]
Obj(d) == [ty |-> "obj", val |-> d]
None == [ty |-> "none", val |-> <<>>]

IsList(v) == v.ty = "list"

\* Outcome of a call: a returned value, or a raised exception with its argument.
Ok(v) == [ok |-> TRUE, val |-> v, err |-> "", key |-> <<>>]
Raise(e, k) == [ok |-> FALSE, val |-> None, err |-> e, key |-> k]

\* ---- selector grammar (complier/utils.py, entities/steps.py) -------------
DollarChunks == {"$inputs", "$steps", "$"}

is_selector(selector_or_value) ==
    /\ selector_or_value.ty = "str"
    /\ Len(selector_or_value.val) > 0
    /\ selector_or_value.val[1] \in DollarChunks

is_input_selector(selector_or_value) ==
    /\ is_selector(selector_or_value)
    /\ selector_or_value.val[1] = "$inputs"

is_step_output_selector(selector_or_value) ==
    /\ is_selector(selector_or_value)
    /\ selector_or_value.val[1] = "$steps"
    /\ Len(selector_or_value.val) = 3

get_step_selector_from_its_output(step_output_selector) ==
    SubSeq(step_output_selector.val, 1, 2)

get_last_selector_chunk(selector) == selector.val[Len(selector.val)]

construct_step_selector(step_name) == <<"$steps", step_name>>

\* ---- utils.py -----------------------------------------------------------
\* d[k] on a dict value
DictGetItem(d, k) ==
    IF k \in DOMAIN d.val THEN Ok(d.val[k]) ELSE Raise("KeyError", <<k>>)

\* step_output[k] as written in the source: a list indexed by a str raises
\* TypeError, a dict without the key raises KeyError.
GetItem(container, k) ==
    IF IsList(container) THEN Raise("TypeError", <<k>>)
    ELSE DictGetItem(container, k)

\* Variant of ListComprehension that collects the fields back to front.
ListComprehension_reversed(step_output, k) ==
    IF \E i \in 1..Len(step_output.val) : k \notin DOMAIN step_output.val[i].val
    THEN Raise("KeyError", <<k>>)
    ELSE Ok(List([i \in 1..Len(step_output.val) |->
                    step_output.val[Len(step_output.val) + 1 - i].val[k]]))

\* [e[k] for e in step_output]: the first element without the key raises.
ListComprehension(step_output, k) ==
    IF \E i \in 1..Len(step_output.val) : k \notin DOMAIN step_output.val[i].val
    THEN Raise("KeyError", <<k>>)
    ELSE Ok(List([i \in 1..Len(step_output.val) |-> step_output.val[i].val[k]]))

\* Variant of InputValue that unwraps a one-element batch.
InputValue_unwrapping(rp, name) ==
    IF name \notin DOMAIN rp THEN Raise("KeyError", <<name>>)
    ELSE IF IsList(rp[name]) /\ Len(rp[name].val) = 1 THEN Ok(rp[name].val[1])
    ELSE Ok(rp[name])

\* Variant of InputValue that behaves as runtime_parameters.get(name).
InputValue_default(rp, name) ==
    IF name \in DOMAIN rp THEN Ok(rp[name]) ELSE Ok(None)

\* runtime_parameters[name]
InputValue(rp, name) ==
    IF name \in DOMAIN rp THEN Ok(rp[name]) ELSE Raise("KeyError", <<name>>)

\* outputs_lookup[step_selector]
LookupGetItem(ol, step_selector) ==
    IF step_selector \in DOMAIN ol THEN Ok(ol[step_selector])
    ELSE Raise("KeyError", step_selector)

get_image(image_param, rp, ol) ==
    IF is_input_selector(image_param)
    THEN InputValue(rp, get_last_selector_chunk(image_param))
    ELSE IF is_step_output_selector(image_param)
    THEN LET step_output ==
                 LookupGetItem(ol, get_step_selector_from_its_output(image_param))
         IN IF ~step_output.ok THEN step_output
            ELSE GetItem(step_output.val, get_last_selector_chunk(image_param))
    ELSE Raise("RuntimeError", <<"Cannot find image">>)

\* Variant of resolve_parameter that takes every string for a reference.
resolve_parameter_every_str(selector_or_value, rp, ol) ==
    IF selector_or_value.ty # "str"
    THEN Ok(selector_or_value)
    ELSE IF is_step_output_selector(selector_or_value)
    THEN LET step_output ==
                 LookupGetItem(ol, get_step_selector_from_its_output(selector_or_value))
         IN IF ~step_output.ok THEN step_output
            ELSE IF IsList(step_output.val)
            THEN ListComprehension(step_output.val,
                                   get_last_selector_chunk(selector_or_value))
            ELSE DictGetItem(step_output.val,
                             get_last_selector_chunk(selector_or_value))
    ELSE InputValue(rp, get_last_selector_chunk(selector_or_value))

resolve_parameter(selector_or_value, rp, ol) ==
    IF ~is_selector(selector_or_value)
    THEN Ok(selector_or_value)
    ELSE IF is_step_output_selector(selector_or_value)
    THEN LET step_output ==
                 LookupGetItem(ol, get_step_selector_from_its_output(selector_or_value))
         IN IF ~step_output.ok THEN step_output
            ELSE IF IsList(step_output.val)
            THEN ListComprehension(step_output.val,
                                   get_last_selector_chunk(selector_or_value))
            ELSE DictGetItem(step_output.val,
                             get_last_selector_chunk(selector_or_value))
    ELSE InputValue(rp, get_last_selector_chunk(selector_or_value))

\* ---- model manager (core/managers/base.py) --------------------------------
\* add_model registers model_id: a no-op when already registered, an
\* authorisation failure when the key is rejected, otherwise the identifier
\* joins the registered set.
add_model(models, model_id, key) ==
    IF model_id \in models THEN [exc |-> Ok(None), models |-> models]
    ELSE IF key = "invalid"
    THEN [exc |-> Raise("NotAuthorizedError", <<key>>), models |-> models]
    ELSE [exc |-> Ok(None), models |-> models \cup {model_id}]

\* The k-th image of a request's image argument (a filler once past its end).
ImageAt(image, k) ==
    IF IsList(image)
    THEN IF k <= Len(image.val) THEN image.val[k] ELSE Scalar("extra")
    ELSE IF k = 1 THEN image ELSE Scalar("extra")

\* Response objects returned by infer_from_request.
PredictionResponse(x) == Obj([predictions |-> List(<<x>>), image |-> x])
OCRResponse(x) == Obj([result |-> x])

\* What infer_from_request may return for a request on `image`: one response
\* object, or a list of 0..MaxBatch response objects (element k is the
\* response for image k).
InferResults(image) ==
    {PredictionResponse(ImageAt(image, 1))}
      \cup {List([k \in 1..n |-> PredictionResponse(ImageAt(image, k))]) : n \in 0..MaxBatch}

\* result.dict() / e.dict()
dict(response) == Dict(response.val)

\* ---- models.py: request construction --------------------------------------
ClassificationParams == <<"model_id", "confidence", "disable_active_learning">>
ObjectDetectionParams ==
    <<"model_id", "class_agnostic_nms", "class_filter", "confidence",
      "iou_threshold", "max_detections">>
InstanceSegmentationParams ==
    ObjectDetectionParams \o <<"mask_decode_mode", "tradeoff_factor">>
KeypointsDetectionParams == ObjectDetectionParams \o <<"keypoint_confidence">>

\* Shared body of the construct_*_request functions: every listed step
\* attribute is resolved, in order; the first failing resolution raises.
construct_request(cls, names, step, image, key, rp, ol) ==
    LET res(n) == resolve_parameter(step.params[names[n]], rp, ol)
        bad == {n \in 1..Len(names) : ~res(n).ok}
    IN
    IF bad # {}
    THEN res(CHOOSE n \in bad : \A m \in bad : n <= m)
    ELSE Ok([ty |-> "request", cls |-> cls, api_key |-> key, image |-> image,
             val |-> [n \in 1..Len(names) |-> res(n).val]])

construct_classification_request(step, image, key, rp, ol) ==
    construct_request("ClassificationInferenceRequest", ClassificationParams,
                      step, image, key, rp, ol)

construct_object_detection_request(step, image, key, rp, ol) ==
    construct_request("ObjectDetectionInferenceRequest", ObjectDetectionParams,
                      step, image, key, rp, ol)

construct_instance_segmentation_request(step, image, key, rp, ol) ==
    construct_request("InstanceSegmentationInferenceRequest",
                      InstanceSegmentationParams, step, image, key, rp, ol)

construct_keypoints_detection_request(step, image, key, rp, ol) ==
    construct_request("KeypointsDetectionInferenceRequest",
                      KeypointsDetectionParams, step, image, key, rp, ol)

\* Keys of the dispatch table.
MODEL_TYPE2REQUEST_CONSTRUCTOR ==
    {"ClassificationModel", "MultiLabelClassificationModel",
     "ObjectDetectionModel", "KeypointsDetectionModel",
     "InstanceSegmentationModel"}

\* MODEL_TYPE2REQUEST_CONSTRUCTOR[step.type](step=..., image=..., ...)
request_constructor(step, image, key, rp, ol) ==
    CASE step.type \in {"ClassificationModel", "MultiLabelClassificationModel"} ->
           construct_classification_request(step, image, key, rp, ol)
      [] step.type = "ObjectDetectionModel" ->
           construct_object_detection_request(step, image, key, rp, ol)
      [] step.type = "KeypointsDetectionModel" ->
           construct_keypoints_detection_request(step, image, key, rp, ol)
      [] step.type = "InstanceSegmentationModel" ->
           construct_instance_segmentation_request(step, image, key, rp, ol)

\* ---- models.py: run_roboflow_model_step ------------------------------------
NoFrame == [model_id |-> None, request |-> None, images |-> <<>>,
            serialised_result |-> <<>>]

\* Variant of roboflow_until_await that never registers the model.
roboflow_until_await_unregistered(step, rp, ol, models, key) ==
    LET model_id == resolve_parameter(step.params.model_id, rp, ol) IN
    IF ~model_id.ok
    THEN [exc |-> model_id, models |-> models, frame |-> NoFrame]
    ELSE
    LET image == get_image(step.image, rp, ol) IN
    IF ~image.ok
    THEN [exc |-> image, models |-> models, frame |-> NoFrame]
    ELSE
    IF step.type \notin MODEL_TYPE2REQUEST_CONSTRUCTOR
    THEN [exc |-> Raise("KeyError", <<step.type>>), models |-> models,
          frame |-> NoFrame]
    ELSE
    LET request == request_constructor(step, image.val, key, rp, ol) IN
    IF ~request.ok
    THEN [exc |-> request, models |-> models, frame |-> NoFrame]
    ELSE [exc |-> Ok(None), models |-> models,
          frame |-> [NoFrame EXCEPT !.model_id = model_id.val,
                                    !.request = request.val]]

\* Lines 39-60: everything the coroutine does before it awaits the model.
\* exc is Ok(None) when the await is reached, else the exception raised;
\* models is the model manager's registry as the call leaves it.
roboflow_until_await(step, rp, ol, models, key) ==
    LET model_id == resolve_parameter(step.params.model_id, rp, ol) IN
    IF ~model_id.ok
    THEN [exc |-> model_id, models |-> models, frame |-> NoFrame]
    ELSE
    LET added == add_model(models, model_id.val, key) IN
    IF ~added.exc.ok
    THEN [exc |-> added.exc, models |-> added.models, frame |-> NoFrame]
    ELSE
    LET image == get_image(step.image, rp, ol) IN
    IF ~image.ok
    THEN [exc |-> image, models |-> added.models, frame |-> NoFrame]
    ELSE
    IF step.type \notin MODEL_TYPE2REQUEST_CONSTRUCTOR
    THEN [exc |-> Raise("KeyError", <<step.type>>), models |-> added.models,
          frame |-> NoFrame]
    ELSE
    LET request == request_constructor(step, image.val, key, rp, ol) IN
    IF ~request.ok
    THEN [exc |-> request, models |-> added.models, frame |-> NoFrame]
    ELSE [exc |-> Ok(None), models |-> added.models,
          frame |-> [NoFrame EXCEPT !.model_id = model_id.val,
                                    !.request = request.val]]

\* Variant of serialise that serialises only the first response of a list.
serialise_first_only(result) ==
    IF IsList(result)
    THEN List([i \in 1..(IF Len(result.val) > 0 THEN 1 ELSE 0) |->
                 dict(result.val[i])])
    ELSE dict(result)

\* Lines 62-65
serialise(result) ==
    IF IsList(result)
    THEN List([i \in 1..Len(result.val) |-> dict(result.val[i])])
    ELSE dict(result)

\* Variant of unwrap_single that keeps a one-element list as a list.
unwrap_single_never(serialised_result) == serialised_result

\* Lines 66-67
unwrap_single(serialised_result) ==
    IF IsList(serialised_result) /\ Len(serialised_result.val) = 1
    THEN serialised_result.val[1]
    ELSE serialised_result

\* outputs_lookup[key] = value  (plain dict item assignment)
\* Variant of SetItem that rebinds the lookup to a fresh one-entry dict.
SetItem_fresh(ol, k, v) == [x \in {k} |-> v]

SetItem(ol, k, v) == [x \in (DOMAIN ol) \cup {k} |-> IF x = k THEN v ELSE ol[x]]

\* Lines 62-68: the entry stored for a raw inference result.
roboflow_after_await(step, ol, result) ==
    SetItem(ol, construct_step_selector(step.name),
            unwrap_single(serialise(result)))

\* ---- models.py: run_ocr_model_step, load_core_model -------------------------
DoctrVersionId == "default"

DoctrOCRInferenceRequest(image) ==
    [ty |-> "request", cls |-> "DoctrOCRInferenceRequest", api_key |-> "",
     image |-> image, val |-> <<DoctrVersionId>>]

\* Lines 212-225. Returns the request as updated, the model id and the
\* outcome of add_model.
load_core_model(models, inference_request, core_model, key) ==
    LET request == IF key # "" THEN [inference_request EXCEPT !.api_key = key]
                   ELSE inference_request
        core_model_id == Str(<<core_model \o "/" \o inference_request.val[1]>>)
        added == add_model(models, core_model_id, request.api_key)
    IN [exc |-> added.exc, models |-> added.models,
        model_id |-> core_model_id, request |-> request]

\* Lines 189-190
as_image_list(image) == IF ~IsList(image) THEN <<image>> ELSE image.val

\* Lines 206-208: the entry stored once the loop over the images has ended.
ocr_after_loop(step, ol, serialised_result) ==
    SetItem(ol, construct_step_selector(step.name),
            IF Len(serialised_result) = 1 THEN serialised_result[1]
            ELSE List(serialised_result))

\* ---- step manifests (prototypes/block.py) -----------------------------------
MetadataMethods ==
    {"get_input_dimensionality_offsets", "get_dimensionality_reference_property",
     "get_output_dimensionality_offset", "accepts_batch_input",
     "accepts_empty_values"}

IntValue(n) == [ty |-> "int", val |-> n]
BoolValue(b) == [ty |-> "bool", val |-> b]
\* A Dict[str, int], as its set of <<parameter name, offset>> items.
Offsets(items) == [ty |-> "offsets", val |-> items]

\* A manifest class says, for each metadata classmethod, whether its body
\* defines the method and what that definition returns.
Inherited == [overridden |-> FALSE, returns |-> None]
Override(v) == [overridden |-> TRUE, returns |-> v]

\* The base class defines all five.
WorkflowBlockManifest ==
    [get_input_dimensionality_offsets |-> Inherited,
     get_dimensionality_reference_property |-> Inherited,
     get_output_dimensionality_offset |-> Inherited,
     accepts_batch_input |-> Inherited,
     accepts_empty_values |-> Inherited]

\* cls.method(): the subclass's definition if it has one, else the base's.
get_input_dimensionality_offsets(cls) ==
    IF cls.get_input_dimensionality_offsets.overridden
    THEN cls.get_input_dimensionality_offsets.returns
    ELSE Offsets({})

get_dimensionality_reference_property(cls) ==
    IF cls.get_dimensionality_reference_property.overridden
    THEN cls.get_dimensionality_reference_property.returns
    ELSE None

get_output_dimensionality_offset(cls) ==
    IF cls.get_output_dimensionality_offset.overridden
    THEN cls.get_output_dimensionality_offset.returns
    ELSE IntValue(0)

\* Variant of accepts_batch_input whose base definition returns True.
accepts_batch_input_by_default(cls) ==
    IF cls.accepts_batch_input.overridden
    THEN cls.accepts_batch_input.returns
    ELSE BoolValue(TRUE)

accepts_batch_input(cls) ==
    IF cls.accepts_batch_input.overridden
    THEN cls.accepts_batch_input.returns
    ELSE BoolValue(FALSE)

accepts_empty_values(cls) ==
    IF cls.accepts_empty_values.overridden
    THEN cls.accepts_empty_values.returns
    ELSE BoolValue(FALSE)

\* The dispatcher's reading of the metadata: the reference parameter's
\* resolved depth plus the declared offset; without a reference parameter,
\* zero unless the step declares batch acceptance.
effective_dimensionality(cls, depth) ==
    IF get_dimensionality_reference_property(cls) # None
    THEN depth + get_output_dimensionality_offset(cls).val
    ELSE IF accepts_batch_input(cls).val THEN depth ELSE 0

NotCalled == [ty |-> "pending", val |-> <<>>]
NotDescribed ==
    [get_input_dimensionality_offsets |-> NotCalled,
     get_dimensionality_reference_property |-> NotCalled,
     get_output_dimensionality_offset |-> NotCalled,
     accepts_batch_input |-> NotCalled,
     accepts_empty_values |-> NotCalled,
     dimensionality |-> NotCalled]

\* ---- one run ------------------------------------------------------------------
VARIABLES
    manifest,            \* the manifest class being introspected
    described,           \* what each metadata method of it returned so far
    reference_depth,     \* batch depth the reference parameter resolved to
    runtime_parameters,  \* input name -> value supplied by the caller
    api_key,             \* credentials passed to every step
    order,               \* the ordered step list handed to the run
    outputs_lookup,      \* step selector -> serialised result
    model_manager,       \* model ids registered with the model manager
    pc,                  \* per step: "pending", "awaiting", "done", "failed"
    frame,               \* per step: locals of the suspended coroutine
    raised,              \* per step: the exception that left the coroutine
    inferred,            \* per step: raw results infer_from_request returned
    written,             \* per step: the value it assigned into outputs_lookup
    returned,            \* per step: first element of the returned tuple
    probe                \* latest resolve_parameter / get_image call of a caller

vars == <<manifest, described, reference_depth, runtime_parameters, api_key,
          order, outputs_lookup, model_manager,
          pc, frame, raised, inferred, written, returned, probe>>

Image(k) == [ty |-> "image", val |-> <<k>>]
Sel(chunks) == Str(chunks)

ImageInputs ==
    {Image(1)} \cup {List([k \in 1..n |-> Image(k)]) : n \in 0..MaxBatch}

DefaultParams ==
    [model_id |-> Sel(<<"$inputs", "model_id">>),
     confidence |-> Scalar("0.4"),
     disable_active_learning |-> Scalar("False"),
     class_agnostic_nms |-> Scalar("False"),
     class_filter |-> None,
     iou_threshold |-> Scalar("0.3"),
     max_detections |-> Scalar("300"),
     mask_decode_mode |-> Str(<<"accurate">>),
     tradeoff_factor |-> Scalar("0.0"),
     keypoint_confidence |-> Scalar("0.0")]

StepPool ==
    { [name |-> "a", type |-> "ObjectDetectionModel",
       image |-> Sel(<<"$inputs", "image">>),
       params |-> [DefaultParams EXCEPT
                     !.confidence = Sel(<<"$inputs", "confidence">>)]],
      [name |-> "b", type |-> "ClassificationModel",
       image |-> Sel(<<"$inputs", "image">>),
       params |-> [DefaultParams EXCEPT
                     !.confidence = Sel(<<"$steps", "a", "predictions">>)]],
      [name |-> "b", type |-> "KeypointsDetectionModel",
       image |-> Sel(<<"$steps", "a", "image">>),
       params |-> [DefaultParams EXCEPT !.model_id = Str(<<"m2">>)]],
      [name |-> "a", type |-> "OCRModel",
       image |-> Sel(<<"$inputs", "image">>),
       params |-> DefaultParams],
      [name |-> "b", type |-> "YoloWorld",
       image |-> Sel(<<"$inputs", "image">>),
       params |-> [DefaultParams EXCEPT !.model_id = Str(<<"m2">>)]],
      [name |-> "c", type |-> "InstanceSegmentationModel",
       image |-> Sel(<<"$inputs", "image">>),
       params |-> DefaultParams] }

Orders == UNION {[1..n -> StepPool] : n \in 1..MaxSteps}

\* Parameters a caller may hand to resolve_parameter / get_image.
ProbeParams ==
    { Sel(<<"$inputs", "image">>), Sel(<<"$inputs", "missing">>),
      Sel(<<"$steps", "a", "predictions">>), Sel(<<"$steps", "a", "*">>),
      Sel(<<"$steps", "b", "image">>), Sel(<<"$steps", "unknown", "field">>),
      Scalar("0.4"), Str(<<"cat">>),
      List(<<Scalar("1"), Str(<<"dog">>)>>), Dict([k |-> Scalar("True")]) }

NoProbe == [called |-> FALSE, param |-> None, resolved |-> Ok(None),
            image |-> Ok(None)]

Steps == 1..Len(order)

Init ==
    /\ runtime_parameters \in
         {[image |-> im, model_id |-> Str(<<"m1">>), confidence |-> Scalar("0.5")]
            : im \in ImageInputs}
    /\ manifest = WorkflowBlockManifest
    /\ described = NotDescribed
    /\ reference_depth = 0
    /\ api_key \in {"valid", "invalid"}
    /\ order \in Orders
    /\ outputs_lookup = <<>>
    /\ model_manager = {}
    /\ pc = [i \in 1..Len(order) |-> "pending"]
    /\ frame = [i \in 1..Len(order) |-> NoFrame]
    /\ raised = [i \in 1..Len(order) |-> Ok(None)]
    /\ inferred = [i \in 1..Len(order) |-> <<>>]
    /\ written = [i \in 1..Len(order) |-> None]
    /\ returned = [i \in 1..Len(order) |-> "pending"]
    /\ probe = NoProbe

\* The driver runs the list in order, one step at a time, and stops at the
\* first failure.
Schedulable(i) ==
    /\ pc[i] = "pending"
    /\ \A j \in 1..(i - 1) : pc[j] = "done"

\* An exception leaves the coroutine of step i.
Fails(i, exc) ==
    /\ pc' = [pc EXCEPT ![i] = "failed"]
    /\ raised' = [raised EXCEPT ![i] = exc]
    /\ frame' = [frame EXCEPT ![i] = NoFrame]

\* Step i assigns its entry and returns (None, outputs_lookup).
Returns(i, ol) ==
    /\ outputs_lookup' = ol
    /\ written' = [written EXCEPT ![i] = ol[construct_step_selector(order[i].name)]]
    /\ returned' = [returned EXCEPT ![i] = "None"]
    /\ pc' = [pc EXCEPT ![i] = "done"]
    /\ frame' = [frame EXCEPT ![i] = NoFrame]

\* run_roboflow_model_step up to its await (lines 39-61).
RoboflowBegin(i) ==
    /\ order[i].type # "OCRModel"
    /\ LET r == roboflow_until_await(order[i], runtime_parameters,
                                     outputs_lookup, model_manager, api_key)
       IN /\ model_manager' = r.models
          /\ IF r.exc.ok
             THEN /\ pc' = [pc EXCEPT ![i] = "awaiting"]
                  /\ frame' = [frame EXCEPT ![i] = r.frame]
                  /\ UNCHANGED raised
             ELSE Fails(i, r.exc)
    /\ probe' = NoProbe
    /\ UNCHANGED <<manifest, described, reference_depth>>
    /\ UNCHANGED <<runtime_parameters, api_key, order, outputs_lookup,
                   inferred, written, returned>>

\* The driver calls run_roboflow_model_step for step i.
RoboflowStart(i) == Schedulable(i) /\ RoboflowBegin(i)

\* Variant of RoboflowResume that records an empty entry when the model
\* invocation fails.
RoboflowResume_partial(i) ==
    /\ pc[i] = "awaiting"
    /\ order[i].type # "OCRModel"
    /\ \/ \E result \in InferResults(frame[i].request.image) :
            /\ inferred' = [inferred EXCEPT ![i] = <<result>>]
            /\ Returns(i, roboflow_after_await(order[i], outputs_lookup, result))
            /\ UNCHANGED raised
       \/ /\ Fails(i, Raise("ModelInvocationError", <<order[i].name>>))
          /\ outputs_lookup' = SetItem(outputs_lookup,
                                       construct_step_selector(order[i].name),
                                       Dict(<<>>))
          /\ UNCHANGED <<inferred, written, returned>>
    /\ probe' = NoProbe
    /\ UNCHANGED <<manifest, described, reference_depth>>
    /\ UNCHANGED <<runtime_parameters, api_key, order, model_manager>>

\* run_roboflow_model_step from the completion of its await (lines 61-69).
RoboflowResume(i) ==
    /\ pc[i] = "awaiting"
    /\ order[i].type # "OCRModel"
    /\ \/ \E result \in InferResults(frame[i].request.image) :
            /\ inferred' = [inferred EXCEPT ![i] = <<result>>]
            /\ Returns(i, roboflow_after_await(order[i], outputs_lookup, result))
            /\ UNCHANGED raised
       \/ /\ Fails(i, Raise("ModelInvocationError", <<order[i].name>>))
          /\ UNCHANGED <<outputs_lookup, inferred, written, returned>>
    /\ probe' = NoProbe
    /\ UNCHANGED <<manifest, described, reference_depth>>
    /\ UNCHANGED <<runtime_parameters, api_key, order, model_manager>>

\* Lines 192-202: one pass of the loop body up to its await, for the image
\* that follows the results collected so far.
\* Variant of ocr_until_await that walks the images from the last one.
ocr_until_await_reversed(models, images, serialised_result, key) ==
    LET single_image == images[Len(images) - Len(serialised_result)]
        loaded == load_core_model(models, DoctrOCRInferenceRequest(single_image),
                                  "doctr", key)
    IN [exc |-> loaded.exc, models |-> loaded.models,
        frame |-> [model_id |-> loaded.model_id, request |-> loaded.request,
                   images |-> images, serialised_result |-> serialised_result]]

ocr_until_await(models, images, serialised_result, key) ==
    LET single_image == images[Len(serialised_result) + 1]
        loaded == load_core_model(models, DoctrOCRInferenceRequest(single_image),
                                  "doctr", key)
    IN [exc |-> loaded.exc, models |-> loaded.models,
        frame |-> [model_id |-> loaded.model_id, request |-> loaded.request,
                   images |-> images, serialised_result |-> serialised_result]]

\* run_ocr_model_step up to its first await, or to its return when there is
\* no image to loop over (lines 184-202, 206-209).
OcrBegin(i) ==
    /\ order[i].type = "OCRModel"
    /\ LET image == get_image(order[i].image, runtime_parameters, outputs_lookup)
       IN IF ~image.ok
          THEN /\ Fails(i, image)
               /\ UNCHANGED <<outputs_lookup, model_manager, written, returned>>
          ELSE IF as_image_list(image.val) = <<>>
          THEN /\ Returns(i, ocr_after_loop(order[i], outputs_lookup, <<>>))
               /\ UNCHANGED <<model_manager, raised>>
          ELSE LET r == ocr_until_await(model_manager, as_image_list(image.val),
                                        <<>>, api_key)
               IN /\ model_manager' = r.models
                  /\ IF r.exc.ok
                     THEN /\ pc' = [pc EXCEPT ![i] = "awaiting"]
                          /\ frame' = [frame EXCEPT ![i] = r.frame]
                          /\ UNCHANGED raised
                     ELSE Fails(i, r.exc)
                  /\ UNCHANGED <<outputs_lookup, written, returned>>
    /\ probe' = NoProbe
    /\ UNCHANGED <<manifest, described, reference_depth>>
    /\ UNCHANGED <<runtime_parameters, api_key, order, inferred>>

\* The driver calls run_ocr_model_step for step i.
OcrStart(i) == Schedulable(i) /\ OcrBegin(i)

\* Variant of OcrResume that assigns the results collected so far into the
\* lookup after every image.
OcrResume_incremental(i) ==
    /\ pc[i] = "awaiting"
    /\ order[i].type = "OCRModel"
    /\ \/ LET result == OCRResponse(frame[i].request.image)
              serialised_result == Append(frame[i].serialised_result, dict(result))
          IN /\ inferred' = [inferred EXCEPT ![i] = Append(@, result)]
             /\ IF Len(serialised_result) < Len(frame[i].images)
                THEN LET r == ocr_until_await(model_manager, frame[i].images,
                                              serialised_result, api_key)
                     IN /\ model_manager' = r.models
                        /\ IF r.exc.ok
                           THEN /\ frame' = [frame EXCEPT ![i] = r.frame]
                                /\ UNCHANGED <<pc, raised>>
                           ELSE Fails(i, r.exc)
                        /\ outputs_lookup' =
                             ocr_after_loop(order[i], outputs_lookup, serialised_result)
                        /\ UNCHANGED <<written, returned>>
                ELSE /\ Returns(i, ocr_after_loop(order[i], outputs_lookup,
                                                  serialised_result))
                     /\ UNCHANGED <<model_manager, raised>>
       \/ /\ Fails(i, Raise("ModelInvocationError", <<order[i].name>>))
          /\ UNCHANGED <<outputs_lookup, model_manager, inferred, written, returned>>
    /\ probe' = NoProbe
    /\ UNCHANGED <<manifest, described, reference_depth>>
    /\ UNCHANGED <<runtime_parameters, api_key, order>>

\* run_ocr_model_step from the completion of an await to the next await or to
\* its return (lines 202-209).
OcrResume(i) ==
    /\ pc[i] = "awaiting"
    /\ order[i].type = "OCRModel"
    /\ \/ LET result == OCRResponse(frame[i].request.image)
              serialised_result == Append(frame[i].serialised_result, dict(result))
          IN /\ inferred' = [inferred EXCEPT ![i] = Append(@, result)]
             /\ IF Len(serialised_result) < Len(frame[i].images)
                THEN LET r == ocr_until_await(model_manager, frame[i].images,
                                              serialised_result, api_key)
                     IN /\ model_manager' = r.models
                        /\ IF r.exc.ok
                           THEN /\ frame' = [frame EXCEPT ![i] = r.frame]
                                /\ UNCHANGED <<pc, raised>>
                           ELSE Fails(i, r.exc)
                        /\ UNCHANGED <<outputs_lookup, written, returned>>
                ELSE /\ Returns(i, ocr_after_loop(order[i], outputs_lookup,
                                                  serialised_result))
                     /\ UNCHANGED <<model_manager, raised>>
       \/ /\ Fails(i, Raise("ModelInvocationError", <<order[i].name>>))
          /\ UNCHANGED <<outputs_lookup, model_manager, inferred, written, returned>>
    /\ probe' = NoProbe
    /\ UNCHANGED <<manifest, described, reference_depth>>
    /\ UNCHANGED <<runtime_parameters, api_key, order>>

\* A caller resolves a parameter against the current inputs and lookup, both
\* as a step attribute (resolve_parameter) and as a step's image (get_image).
Probe(param) ==
    /\ probe' = [called |-> TRUE, param |-> param,
                 resolved |-> resolve_parameter(param, runtime_parameters,
                                                outputs_lookup),
                 image |-> get_image(param, runtime_parameters, outputs_lookup)]
    /\ probe' # probe
    /\ UNCHANGED <<manifest, described, reference_depth>>
    /\ UNCHANGED <<runtime_parameters, api_key, order, outputs_lookup,
                   model_manager, pc, frame, raised, inferred, written, returned>>

Next ==
    \/ \E i \in Steps : RoboflowStart(i)
    \/ \E i \in Steps : RoboflowResume(i)
    \/ \E i \in Steps : OcrStart(i)
    \/ \E i \in Steps : OcrResume(i)
    \/ \E param \in ProbeParams : Probe(param)

Spec == Init /\ [][Next]_vars

TypeOK ==
    /\ \A i \in Steps : pc[i] \in {"pending", "awaiting", "done", "failed"}
    /\ \A i \in Steps : pc[i] = "failed" <=> ~raised[i].ok

\* ---- properties ------------------------------------------------------------------
ProbedStepOutput ==
    /\ probe.called
    /\ is_step_output_selector(probe.param)
    /\ get_step_selector_from_its_output(probe.param) \in DOMAIN outputs_lookup

ProbedEntry == outputs_lookup[get_step_selector_from_its_output(probe.param)]
ProbedField == get_last_selector_chunk(probe.param)

\* C1: resolving a step-output selector against an entry that is a sequence of
\* N records (N >= 0), each holding the field, returns a sequence of exactly N
\* values, the i-th being the field of the i-th record; against an entry that
\* is a single record holding the field it returns that field's value itself.
C1_FieldBroadcast ==
    ProbedStepOutput =>
      /\ ( /\ ProbedEntry.ty = "list"
           /\ \A i \in 1..Len(ProbedEntry.val) :
                ProbedField \in DOMAIN ProbedEntry.val[i].val )
         => /\ probe.resolved.ok
            /\ probe.resolved.val.ty = "list"
            /\ Len(probe.resolved.val.val) = Len(ProbedEntry.val)
            /\ \A i \in 1..Len(ProbedEntry.val) :
                 probe.resolved.val.val[i] = ProbedEntry.val[i].val[ProbedField]
      /\ (ProbedEntry.ty = "dict" /\ ProbedField \in DOMAIN ProbedEntry.val)
         => probe.resolved = Ok(ProbedEntry.val[ProbedField])

\* A field was resolved over an entry of two different records.
C1_Witness ==
    /\ ProbedStepOutput
    /\ ProbedEntry.ty = "list"
    /\ Len(ProbedEntry.val) = 2
    /\ ProbedEntry.val[1] # ProbedEntry.val[2]
    /\ ProbedField \in DOMAIN ProbedEntry.val[1].val
    /\ probe.resolved.ok
    /\ Len(probe.resolved.val.val) = 2

\* C2: resolving a step-output selector whose field is `*` returns the whole
\* entry of the referenced step (record or sequence of records).
C2_WildcardWholeEntry ==
    (ProbedStepOutput /\ ProbedField = "*") => probe.resolved = Ok(ProbedEntry)

ProbedInput ==
    /\ probe.called
    /\ is_input_selector(probe.param)
    /\ get_last_selector_chunk(probe.param) \in DOMAIN runtime_parameters

\* C3: an input selector whose identifier is bound resolves to exactly the
\* bound value (a batch stays the same sequence), through resolve_parameter
\* and through get_image, whatever the lookup holds.
C3_InputIdentity ==
    ProbedInput =>
      /\ probe.resolved = Ok(runtime_parameters[get_last_selector_chunk(probe.param)])
      /\ probe.image = Ok(runtime_parameters[get_last_selector_chunk(probe.param)])

\* A one-image batch was resolved while the lookup held an entry.
C3_Witness ==
    /\ ProbedInput
    /\ probe.resolved.ok
    /\ probe.resolved.val.ty = "list"
    /\ Len(probe.resolved.val.val) = 1
    /\ DOMAIN outputs_lookup # {}

Literals == {param \in ProbeParams : ~is_selector(param)}

\* C4: a value that is not a selector resolves to itself, in every state of
\* the inputs and the lookup, so repeated resolutions agree however the lookup
\* changed in between.
C4_LiteralIdentity ==
    /\ (probe.called /\ ~is_selector(probe.param)) => probe.resolved = Ok(probe.param)
    /\ \A literal \in Literals :
         resolve_parameter(literal, runtime_parameters, outputs_lookup) = Ok(literal)

\* A non-reference string was resolved after the lookup had changed.
C4_Witness ==
    /\ probe.called
    /\ probe.param = Str(<<"cat">>)
    /\ probe.resolved.ok
    /\ DOMAIN outputs_lookup # {}

StepKey(i) == construct_step_selector(order[i].name)

\* No later step of the list that has returned carries the name of step i.
LastWriter(i) ==
    \A j \in Steps : (j > i /\ order[j].name = order[i].name) => pc[j] # "done"

\* C5: a step executed under a name that already has an entry never completes
\* its write (it fails), and the existing entry stays as first written.
C5_WriteOnce ==
    \A i, j \in Steps :
      (i < j /\ order[i].name = order[j].name /\ pc[i] = "done")
        => /\ pc[j] # "done"
           /\ outputs_lookup[StepKey(i)] = written[i]

ProbedAbsentStep ==
    /\ probe.called
    /\ is_step_output_selector(probe.param)
    /\ get_step_selector_from_its_output(probe.param) \notin DOMAIN outputs_lookup

ProbedUnboundInput ==
    /\ probe.called
    /\ is_input_selector(probe.param)
    /\ get_last_selector_chunk(probe.param) \notin DOMAIN runtime_parameters

\* Step-output selectors among the attributes of a step.
StepOutputRefs(step) ==
    {v \in {step.image} \cup {step.params[n] : n \in DOMAIN step.params} :
       is_step_output_selector(v)}

C6_Resolution ==
    /\ ProbedAbsentStep =>
         /\ probe.resolved =
              Raise("KeyError", get_step_selector_from_its_output(probe.param))
         /\ probe.image =
              Raise("KeyError", get_step_selector_from_its_output(probe.param))
    /\ ProbedUnboundInput =>
         /\ probe.resolved = Raise("KeyError", <<get_last_selector_chunk(probe.param)>>)
         /\ probe.image = Raise("KeyError", <<get_last_selector_chunk(probe.param)>>)
    /\ \A i \in Steps : \A ref \in StepOutputRefs(order[i]) :
         ( /\ pc[i] # "pending"
           /\ order[i].type # "OCRModel"
           /\ get_step_selector_from_its_output(ref) \notin DOMAIN outputs_lookup )
         => /\ pc[i] = "failed"
            /\ written[i] = None
            /\ api_key = "valid" =>
                 raised[i] = Raise("KeyError", get_step_selector_from_its_output(ref))

C6_LookupKept ==
    /\ (probe'.called /\ ~probe'.resolved.ok) => outputs_lookup' = outputs_lookup
    /\ \A i \in Steps :
         (pc[i] = "pending" /\ pc'[i] = "failed") => outputs_lookup' = outputs_lookup

\* C6: resolving a step-output selector of a step without entry, or an input
\* selector of an unbound identifier, raises a KeyError carrying the missing
\* step selector / input name, through resolve_parameter, get_image and a step
\* that uses such an attribute; no value is produced and the lookup is left as
\* it was.
C6_AbsentTargetFails == []C6_Resolution /\ [][C6_LookupKept]_vars

\* Both kinds of absent target were hit: a caller resolved a selector of a
\* step that never ran, and a step failed on its own reference to one.
C6_Witness ==
    /\ ProbedAbsentStep
    /\ ~probe.resolved.ok
    /\ \E i \in Steps :
         /\ pc[i] = "failed"
         /\ raised[i].err = "KeyError"
         /\ raised[i].key = <<"$steps", "a">>

\* The entry the claim expects for the raw results of a step: raw is the value
\* infer_from_request returned (model step) or the list of the values it
\* returned per image (OCR step).
StoredAsClaimed(raw, entry) ==
    IF raw.ty = "list"
    THEN IF Len(raw.val) = 1
         THEN entry.ty = "dict" /\ entry.val = raw.val[1].val
         ELSE /\ entry.ty = "list"
              /\ Len(entry.val) = Len(raw.val)
              /\ \A k \in 1..Len(raw.val) :
                   entry.val[k].ty = "dict" /\ entry.val[k].val = raw.val[k].val
    ELSE entry.ty = "dict" /\ entry.val = raw.val

RawResult(i) ==
    IF order[i].type = "OCRModel" THEN List(inferred[i]) ELSE inferred[i][1]

\* C7: a step that returned stored, for a raw one-element sequence, the bare
\* record; for a raw sequence of any other length (0 included), a sequence of
\* the records in the same order; for a raw single response, its record.
C7_Normalisation ==
    \A i \in Steps :
      pc[i] = "done" =>
        /\ StoredAsClaimed(RawResult(i), written[i])
        /\ LastWriter(i) => outputs_lookup[StepKey(i)] = written[i]

\* A model step received a one-element sequence and its entry is the record.
C7_Witness ==
    \E i \in Steps :
      /\ pc[i] = "done"
      /\ order[i].type # "OCRModel"
      /\ RawResult(i).ty = "list"
      /\ Len(RawResult(i).val) = 1
      /\ outputs_lookup[StepKey(i)].ty = "dict"

\* Step i is the single model step of the run, fed the batch of N >= 1 images
\* bound to the input `image`; it returned, and its inference had answered
\* with one response per image.
BatchedModelStep(i) ==
    /\ Len(order) = 1
    /\ order[i].type # "OCRModel"
    /\ order[i].image = Sel(<<"$inputs", "image">>)
    /\ IsList(runtime_parameters.image)
    /\ Len(runtime_parameters.image.val) >= 1
    /\ pc[i] = "done"
    /\ RawResult(i).ty = "list"
    /\ Len(RawResult(i).val) = Len(runtime_parameters.image.val)

ProbedPredictions(i) ==
    /\ probe.called
    /\ probe.param = Sel(<<"$steps", order[i].name, "predictions">>)

\* The entry of step i is a sequence of one record per image, in input order,
\* and a dependent resolving its field `predictions` got as many values.
YieldsSequence(i) ==
    LET images == runtime_parameters.image.val
        entry == outputs_lookup[StepKey(i)]
    IN /\ entry.ty = "list"
       /\ Len(entry.val) = Len(images)
       /\ \A k \in 1..Len(images) :
            entry.val[k] = dict(PredictionResponse(images[k]))
       /\ ProbedPredictions(i) =>
            /\ probe.resolved.ok
            /\ probe.resolved.val.ty = "list"
            /\ Len(probe.resolved.val.val) = Len(images)
            /\ \A k \in 1..Len(images) :
                 probe.resolved.val.val[k] = List(<<images[k]>>)

C9_Aborted ==
    \A i \in Steps :
      pc[i] = "failed" =>
        /\ ~raised[i].ok
        /\ returned[i] = "pending"
        /\ written[i] = None
        /\ (\A j \in 1..(i - 1) : order[j].name # order[i].name)
             => StepKey(i) \notin DOMAIN outputs_lookup
        /\ \A j \in Steps :
             j > i => /\ pc[j] = "pending"
                      /\ written[j] = None
                      /\ inferred[j] = <<>>
        /\ \A j \in 1..(i - 1) :
             /\ pc[j] = "done"
             /\ StepKey(j) \in DOMAIN outputs_lookup
             /\ LastWriter(j) => outputs_lookup[StepKey(j)] = written[j]

C9_FailureKeepsLookup ==
    /\ (\E i \in Steps : pc[i] # "failed" /\ pc'[i] = "failed")
         => outputs_lookup' = outputs_lookup
    /\ (\E i \in Steps : pc[i] = "failed")
         => UNCHANGED <<outputs_lookup, pc, raised, written, model_manager>>

\* C9: a step that fails, wherever in its execution, leaves its exception with
\* the caller, has written no entry and returned nothing; no later step of the
\* list has run; every earlier step's entry is present as written, and the
\* lookup is left exactly as it was when the step failed.
C9_FailurePropagates == []C9_Aborted /\ [][C9_FailureKeepsLookup]_vars

\* A second step failed in its model invocation after the first had written.
C9_Witness ==
    /\ Len(order) = 2
    /\ pc[1] = "done"
    /\ pc[2] = "failed"
    /\ raised[2].err = "ModelInvocationError"
    /\ outputs_lookup[StepKey(1)] = written[1]

Unsupported(step) ==
    step.type # "OCRModel" /\ step.type \notin MODEL_TYPE2REQUEST_CONSTRUCTOR

\* C10: a step whose type has no request constructor is rejected when the
\* steps are constructed: in a run holding such a step no model is registered,
\* no inference is awaited and nothing is written, by that step or any other.
C10_RejectedAtConstruction ==
    (\E i \in Steps : Unsupported(order[i])) =>
      /\ model_manager = {}
      /\ outputs_lookup = <<>>
      /\ \A j \in Steps : pc[j] \in {"pending", "failed"}

\* Number of elements of an entry: a sequence counts its records, a bare
\* record (a one-element result unwrapped) counts one.
EntryLength(entry) == IF IsList(entry) THEN Len(entry.val) ELSE 1

\* Step i is a model step whose image attribute is the input `image`, bound to
\* a batch.
TakesInputBatch(i) ==
    /\ order[i].type # "OCRModel"
    /\ order[i].image = Sel(<<"$inputs", "image">>)
    /\ IsList(runtime_parameters.image)

\* C11: when the image of a model step resolves to a sequence of K elements,
\* the result the step wrote has exactly K elements (otherwise the step must
\* have failed): a result of another length is never written.
C11_ResultLengthMatchesBatch ==
    \A i \in Steps :
      (TakesInputBatch(i) /\ written[i] # None) =>
        EntryLength(written[i]) = Len(runtime_parameters.image.val)

\* ---- concurrent siblings -----------------------------------------------------
\* Step i reads the output of step j.
DependsOn(i, j) ==
    \E ref \in StepOutputRefs(order[i]) :
      get_step_selector_from_its_output(ref) = StepKey(j)

\* Steps without data dependency between them are siblings and may be in
\* flight together; a step waits for the steps it reads from and for an
\* earlier step of its own name.
Ready(i) ==
    /\ pc[i] = "pending"
    /\ \A j \in 1..(i - 1) :
         (DependsOn(i, j) \/ order[j].name = order[i].name) => pc[j] = "done"

ConcurrentRoboflowStart(i) == Ready(i) /\ RoboflowBegin(i)
ConcurrentOcrStart(i) == Ready(i) /\ OcrBegin(i)

NextConcurrent ==
    \/ \E i \in Steps : ConcurrentRoboflowStart(i)
    \/ \E i \in Steps : RoboflowResume(i)
    \/ \E i \in Steps : ConcurrentOcrStart(i)
    \/ \E i \in Steps : OcrResume(i)
    \/ \E param \in ProbeParams : Probe(param)

SpecConcurrent == Init /\ [][NextConcurrent]_vars

\* No step of the name of step i has returned.
NoneReturned(i) ==
    \A j \in Steps : order[j].name = order[i].name => pc[j] # "done"

\* Images an OCR step loops over (its image attribute is the input `image`).
OcrImages == as_image_list(runtime_parameters.image)

C12_NoPartialEntry ==
    \A i \in Steps :
      /\ NoneReturned(i) => StepKey(i) \notin DOMAIN outputs_lookup
      /\ pc[i] # "done" => written[i] = None
      /\ (pc[i] = "done" /\ LastWriter(i)) =>
           /\ outputs_lookup[StepKey(i)] = written[i]
           /\ StoredAsClaimed(RawResult(i), written[i])
           /\ order[i].type = "OCRModel" => Len(inferred[i]) = Len(OcrImages)

C12_SingleWrite ==
    /\ DOMAIN outputs_lookup \subseteq DOMAIN outputs_lookup'
    /\ \A k \in DOMAIN outputs_lookup :
         outputs_lookup'[k] # outputs_lookup[k] =>
           \E i \in Steps : StepKey(i) = k /\ pc[i] # "done" /\ pc'[i] = "done"
    /\ \A k \in (DOMAIN outputs_lookup') \ (DOMAIN outputs_lookup) :
         \E i \in Steps : StepKey(i) = k /\ pc[i] # "done" /\ pc'[i] = "done"

\* C12: under every interleaving of siblings, the entry of a step is absent
\* until a step of that name has returned, and it then holds the full
\* normalised result (an OCR entry holds the results of all its images, never
\* a prefix); an entry appears or changes only in the one transition in which
\* a step of its own key returns, and no entry is ever removed.
C12_AtomicEntries == []C12_NoPartialEntry /\ [][C12_SingleWrite]_vars

\* An OCR step is suspended with the result of the first of its two images
\* collected while a sibling started after it has already written its entry.
C12_Witness ==
    \E i, j \in Steps :
      /\ i < j
      /\ order[i].type = "OCRModel"
      /\ pc[i] = "awaiting"
      /\ Len(frame[i].images) = 2
      /\ Len(frame[i].serialised_result) = 1
      /\ pc[j] = "done"
      /\ StepKey(j) \in DOMAIN outputs_lookup
      /\ StepKey(i) \notin DOMAIN outputs_lookup

\* ---- shared model manager ------------------------------------------------------
\* The model manager outlives a run: models registered by earlier runs of the
\* process may already be loaded when a run starts.
DoctrModelId == Str(<<"doctr" \o "/" \o DoctrVersionId>>)

InitShared ==
    /\ runtime_parameters \in
         {[image |-> im, model_id |-> Str(<<"m1">>), confidence |-> Scalar("0.5")]
            : im \in ImageInputs}
    /\ manifest = WorkflowBlockManifest
    /\ described = NotDescribed
    /\ reference_depth = 0
    /\ api_key \in {"valid", "invalid"}
    /\ order \in Orders
    /\ outputs_lookup = <<>>
    /\ model_manager \in {{}, {Str(<<"m1">>), DoctrModelId}}
    /\ pc = [i \in 1..Len(order) |-> "pending"]
    /\ frame = [i \in 1..Len(order) |-> NoFrame]
    /\ raised = [i \in 1..Len(order) |-> Ok(None)]
    /\ inferred = [i \in 1..Len(order) |-> <<>>]
    /\ written = [i \in 1..Len(order) |-> None]
    /\ returned = [i \in 1..Len(order) |-> "pending"]
    /\ probe = NoProbe

SpecShared == InitShared /\ [][NextConcurrent]_vars

\* The identifier step i registers and infers on.
RegisteredId(i) ==
    IF order[i].type = "OCRModel" THEN DoctrModelId
    ELSE resolve_parameter(order[i].params.model_id, runtime_parameters,
                           outputs_lookup).val

C13_RegisteredBeforeInference ==
    \A i \in Steps :
      /\ pc[i] = "awaiting" =>
           /\ frame[i].model_id = RegisteredId(i)
           /\ frame[i].model_id \in model_manager
      /\ inferred[i] # <<>> => RegisteredId(i) \in model_manager

\* Step i moves (it starts, or resumes into its next loop pass).
Moves(i) == pc'[i] # pc[i] \/ frame'[i] # frame[i]

C13_Idempotent ==
    /\ model_manager \subseteq model_manager'
    /\ \A i \in Steps :
         (Moves(i) /\ RegisteredId(i) \in model_manager) =>
           /\ model_manager' = model_manager
           /\ raised'[i].err # "NotAuthorizedError"

\* C13: a step is suspended in infer_from_request, or has obtained a result
\* from it, only with its model identifier registered; registering an
\* identifier that is already registered (by an earlier run, by an earlier or
\* concurrent step, or by an earlier pass of the OCR loop) does not fail and
\* leaves the registered set as it was.
C13_RegisterThenInfer ==
    []C13_RegisteredBeforeInference /\ [][C13_Idempotent]_vars

\* With a key the manager would reject, an OCR step went through the
\* registration of the already loaded core model once per image and got both
\* results; the registered set is the one the run started with.
C13_Witness ==
    \E i \in Steps :
      /\ api_key = "invalid"
      /\ order[i].type = "OCRModel"
      /\ pc[i] = "done"
      /\ Len(inferred[i]) = 2
      /\ model_manager = {Str(<<"m1">>), DoctrModelId}

\* ---- introspecting a manifest class --------------------------------------------
ManifestTypes ==
    [get_input_dimensionality_offsets :
       {Inherited, Override(Offsets({})), Override(Offsets({<<"image", 1>>}))},
     get_dimensionality_reference_property :
       {Inherited, Override(None), Override(Str(<<"image">>))},
     get_output_dimensionality_offset :
       {Inherited, Override(IntValue(0)), Override(IntValue(1))},
     accepts_batch_input :
       {Inherited, Override(BoolValue(FALSE)), Override(BoolValue(TRUE))},
     accepts_empty_values : {Inherited, Override(BoolValue(TRUE))}]

InitManifest ==
    /\ manifest \in ManifestTypes
    /\ described = NotDescribed
    /\ reference_depth \in 0..MaxDepth
    /\ runtime_parameters =
         [image |-> Image(1), model_id |-> Str(<<"m1">>),
          confidence |-> Scalar("0.5")]
    /\ api_key = "valid"
    /\ order = <<>>
    /\ outputs_lookup = <<>>
    /\ model_manager = {}
    /\ pc = <<>>
    /\ frame = <<>>
    /\ raised = <<>>
    /\ inferred = <<>>
    /\ written = <<>>
    /\ returned = <<>>
    /\ probe = NoProbe

runVars ==
    <<runtime_parameters, api_key, order, outputs_lookup, model_manager, pc,
      frame, raised, inferred, written, returned, probe>>

CallMetadataMethod(cls, method) ==
    CASE method = "get_input_dimensionality_offsets" ->
           get_input_dimensionality_offsets(cls)
      [] method = "get_dimensionality_reference_property" ->
           get_dimensionality_reference_property(cls)
      [] method = "get_output_dimensionality_offset" ->
           get_output_dimensionality_offset(cls)
      [] method = "accepts_batch_input" -> accepts_batch_input(cls)
      [] method = "accepts_empty_values" -> accepts_empty_values(cls)

DescribeManifest(method) ==
    /\ described' =
         [described EXCEPT ![method] = CallMetadataMethod(manifest, method)]
    /\ UNCHANGED <<manifest, reference_depth>>
    /\ UNCHANGED runVars

ComputeDimensionality ==
    /\ described' =
         [described EXCEPT
            !.dimensionality =
               IntValue(effective_dimensionality(manifest, reference_depth))]
    /\ UNCHANGED <<manifest, reference_depth>>
    /\ UNCHANGED runVars

NextManifest ==
    \/ \E method \in MetadataMethods : DescribeManifest(method)
    \/ ComputeDimensionality

SpecManifest == InitManifest /\ [][NextManifest]_vars

OverridesNothing ==
    /\ ~manifest.get_input_dimensionality_offsets.overridden
    /\ ~manifest.get_dimensionality_reference_property.overridden
    /\ ~manifest.get_output_dimensionality_offset.overridden
    /\ ~manifest.accepts_batch_input.overridden
    /\ ~manifest.accepts_empty_values.overridden

\* dict.get(parameter, 0) on a returned offsets map.
OffsetOf(offsets, parameter) ==
    IF \E item \in offsets.val : item[1] = parameter
    THEN (CHOOSE item \in offsets.val : item[1] = parameter)[2]
    ELSE 0

\* C14: a manifest type that overrides none of the metadata methods reports
\* an empty map of input dimensionality offsets (so every parameter's offset
\* is 0), no dimensionality-reference parameter, output dimensionality
\* offset 0, batch input not accepted and empty values not accepted; its
\* effective dimensionality is 0 whatever the depth of its inputs.
C14_DefaultMetadata ==
    OverridesNothing =>
      /\ described.get_input_dimensionality_offsets # NotCalled =>
           /\ described.get_input_dimensionality_offsets = Offsets({})
           /\ \A parameter \in {"image", "model_id", "confidence"} :
                OffsetOf(described.get_input_dimensionality_offsets,
                         parameter) = 0
      /\ described.get_dimensionality_reference_property # NotCalled =>
           described.get_dimensionality_reference_property = None
      /\ described.get_output_dimensionality_offset # NotCalled =>
           described.get_output_dimensionality_offset = IntValue(0)
      /\ described.accepts_batch_input # NotCalled =>
           described.accepts_batch_input = BoolValue(FALSE)
      /\ described.accepts_empty_values # NotCalled =>
           described.accepts_empty_values = BoolValue(FALSE)
      /\ described.dimensionality # NotCalled =>
           described.dimensionality = IntValue(0)

\* Every metadata method of a type that overrides nothing has been called,
\* and its dimensionality computed for a batched reference input.
C14_Witness ==
    /\ OverridesNothing
    /\ reference_depth > 0
    /\ \A method \in MetadataMethods \cup {"dimensionality"} :
         described[method] # NotCalled

\* ---- the OCR loop -----------------------------------------------------------------
OcrOnInput(i) ==
    /\ order[i].type = "OCRModel"
    /\ order[i].image = Sel(<<"$inputs", "image">>)

\* The images submitted to an OCR step reading the image input.
SubmittedImages ==
    IF IsList(runtime_parameters.image)
    THEN runtime_parameters.image.val
    ELSE <<runtime_parameters.image>>

\* C15: an OCR step over N images invokes inference once per image, in input
\* order, the next image only after the previous result has been obtained;
\* the k-th result collected is that of the k-th image, a finished step has
\* collected exactly N, and an image that is not a sequence is a batch of one.
C15_OnePerImageInOrder ==
    \A i \in Steps :
      OcrOnInput(i) =>
        /\ Len(inferred[i]) <= Len(SubmittedImages)
        /\ \A k \in 1..Len(inferred[i]) :
             inferred[i][k] = OCRResponse(SubmittedImages[k])
        /\ pc[i] = "awaiting" =>
             /\ Len(inferred[i]) < Len(SubmittedImages)
             /\ frame[i].request.image = SubmittedImages[Len(inferred[i]) + 1]
             /\ Len(frame[i].serialised_result) = Len(inferred[i])
        /\ pc[i] = "done" => Len(inferred[i]) = Len(SubmittedImages)
        /\ (pc[i] = "done" /\ ~IsList(runtime_parameters.image)) =>
             inferred[i] = <<OCRResponse(runtime_parameters.image)>>

\* An OCR step finished a batch of two different images.
C15_Witness ==
    \E i \in Steps :
      /\ OcrOnInput(i)
      /\ pc[i] = "done"
      /\ Len(inferred[i]) = 2
      /\ inferred[i][1] # inferred[i][2]
      /\ inferred[i][2] = OCRResponse(runtime_parameters.image.val[2])

\* ---- get_image against resolve_parameter ---------------------------------------
\* C16: on an input selector or a step-output selector, get_image returns
\* what resolve_parameter returns, in every state of the inputs and of the
\* lookup, an entry that is a sequence of records included.
C16_GetImageAsResolveParameter ==
    ( /\ probe.called
      /\ \/ is_input_selector(probe.param)
         \/ is_step_output_selector(probe.param) )
    => probe.image = probe.resolved

\* ---- frame of a step execution -----------------------------------------------------
Completes(i) == pc[i] # "done" /\ pc'[i] = "done"

C17_FrameEffect ==
    /\ runtime_parameters' = runtime_parameters
    /\ DOMAIN outputs_lookup \subseteq DOMAIN outputs_lookup'
    /\ (\A i \in Steps : ~Completes(i)) => outputs_lookup' = outputs_lookup
    /\ \A i \in Steps :
         Completes(i) =>
           /\ DOMAIN outputs_lookup' = DOMAIN outputs_lookup \cup {StepKey(i)}
           /\ \A k \in DOMAIN outputs_lookup \ {StepKey(i)} :
                outputs_lookup'[k] = outputs_lookup[k]
           /\ returned'[i] = "None"

\* C17: no step execution, successful or failed, changes the runtime inputs;
\* a successful execution changes the lookup at its own step's key only,
\* leaving every other entry as it was and removing none, and returns None
\* as its next step; an execution that does not complete leaves the lookup
\* alone.
C17_OwnKeyOnly == [][C17_FrameEffect]_vars

\* Two steps with different keys have completed, and the entry each of them
\* wrote is in the lookup.
C17_Witness ==
    \E i, j \in Steps :
      /\ StepKey(i) # StepKey(j)
      /\ pc[i] = "done"
      /\ pc[j] = "done"
      /\ returned[j] = "None"
      /\ outputs_lookup[StepKey(i)] = written[i]
      /\ outputs_lookup[StepKey(j)] = written[j]
      /\ written[i] # None

====
